---- MODULE Spec2Model ----
(***************************************************************************)
(* A model of the SQL front end: tokenizer.rs (tokenize), expression.rs    *)
(* (parse_expression, precedence climbing) and parser.rs (parse, the       *)
(* SELECT and CREATE TABLE statement parsers), driven as main.rs drives    *)
(* them: tokenize the text, parse the tokens as an expression, parse the   *)
(* tokens as a statement.                                                  *)
(*                                                                         *)
(* Text is a sequence of one-character strings; a String payload of a      *)
(* token or of a tree is such a sequence too.                              *)
(***************************************************************************)
EXTENDS Integers, Sequences, FiniteSets, TLC

VARIABLES
    source,       \* how the input was produced (family and parameters)
    text,         \* tokenize: input
    pos,          \* tokenize: chars, as the number of characters consumed
    tokens,       \* tokenize: tokens; afterwards the slice handed to the parsers
    exprResult,   \* main: the result of parse_expression(&tokens, 0)
    iter,         \* parse: iter, as the number of tokens consumed
    sel,          \* parse_select_statement: columns, from, where, orderby
    ct,           \* parse_create_table_statement / parse_table_column locals
    start_index,  \* the last start_index computed before a parse_expression call
    consumed,     \* the last consumed count returned to the statement parser
    result,       \* parse: the returned Result, or a panic
    pc            \* the position of the program

vars == <<source, text, pos, tokens, exprResult, iter, sel, ct, start_index,
          consumed, result, pc>>

-----------------------------------------------------------------------------
(* Characters *)

LowerCase == <<"a","b","c","d","e","f","g","h","i","j","k","l","m",
               "n","o","p","q","r","s","t","u","v","w","x","y","z">>
UpperCase == <<"A","B","C","D","E","F","G","H","I","J","K","L","M",
               "N","O","P","Q","R","S","T","U","V","W","X","Y","Z">>
Digits == <<"0","1","2","3","4","5","6","7","8","9">>

Range(f) == {f[i] : i \in DOMAIN f}

IndexIn(seq, c) == CHOOSE i \in DOMAIN seq : seq[i] = c

is_whitespace(c) == c \in {" ", "\t"}

is_digit(c) == c \in Range(Digits)

is_alphanumeric(c) == c \in Range(LowerCase) \cup Range(UpperCase) \cup Range(Digits)

DigitValue(c) == IndexIn(Digits, c) - 1

CharToUpper(c) == IF c \in Range(LowerCase) THEN UpperCase[IndexIn(LowerCase, c)] ELSE c

to_uppercase(s) == [i \in DOMAIN s |-> CharToUpper(s[i])]

-----------------------------------------------------------------------------
(* Integer parsing: str::parse::<i64>() and str::parse::<u64>() on a run    *)
(* that holds no sign character.                                           *)

RECURSIVE StripZeros(_)
StripZeros(ds) ==
    IF Len(ds) > 1 /\ ds[1] = "0" THEN StripZeros(Tail(ds)) ELSE ds

RECURSIVE LexLeq(_, _)
LexLeq(a, b) ==
    IF a = <<>> THEN TRUE
    ELSE IF DigitValue(a[1]) < DigitValue(b[1]) THEN TRUE
    ELSE IF DigitValue(a[1]) > DigitValue(b[1]) THEN FALSE
    ELSE LexLeq(Tail(a), Tail(b))

I64MaxDigits == <<"9","2","2","3","3","7","2","0","3","6","8","5","4","7","7","5","8","0","7">>
U64MaxDigits == <<"1","8","4","4","6","7","4","4","0","7","3","7","0","9","5","5","1","6","1","5">>

FitsIn(ds, maxDigits) ==
    LET z == StripZeros(ds) IN
    \/ Len(z) < Len(maxDigits)
    \/ Len(z) = Len(maxDigits) /\ LexLeq(z, maxDigits)

RECURSIVE DigitsValue(_, _)
DigitsValue(ds, acc) ==
    IF ds = <<>> THEN acc ELSE DigitsValue(Tail(ds), acc * 10 + DigitValue(ds[1]))

AllDigits(s) == s # <<>> /\ \A i \in DOMAIN s : is_digit(s[i])

parse_i64(s) ==
    IF AllDigits(s) /\ FitsIn(s, I64MaxDigits)
    THEN [ok |-> TRUE, n |-> DigitsValue(s, 0)]
    ELSE [ok |-> FALSE]

parse_u64(s) ==
    IF AllDigits(s) /\ FitsIn(s, U64MaxDigits)
    THEN [ok |-> TRUE, n |-> DigitsValue(s, 0)]
    ELSE [ok |-> FALSE]

-----------------------------------------------------------------------------
(* Tokens *)

Keyword(k)       == [t |-> "Keyword", s |-> k]
Identifier(name) == [t |-> "Identifier", s |-> name]
Operator(op)     == [t |-> "Operator", s |-> op]
Number(n)        == [t |-> "Number", n |-> n]
StringLiteral(s) == [t |-> "StringLiteral", s |-> s]
BoolLiteral(b)   == [t |-> "BoolLiteral", b |-> b]
Varchar(len)     == [t |-> "Varchar", n |-> len]
Comma      == [t |-> "Comma"]
Semicolon  == [t |-> "Semicolon"]
LParen     == [t |-> "LParen"]
RParen     == [t |-> "RParen"]
Star       == [t |-> "Star"]
Asc        == [t |-> "Asc"]
Desc       == [t |-> "Desc"]
IntTok     == [t |-> "Int"]   \* Token::Int (Int names the integers here)
Bool       == [t |-> "Bool"]
PrimaryKey == [t |-> "PrimaryKey"]
NotNull    == [t |-> "NotNull"]
Check      == [t |-> "Check"]
EOF        == [t |-> "EOF"]

sSELECT  == <<"S","E","L","E","C","T">>
sFROM    == <<"F","R","O","M">>
sWHERE   == <<"W","H","E","R","E">>
sCREATE  == <<"C","R","E","A","T","E">>
sTABLE   == <<"T","A","B","L","E">>
sORDER   == <<"O","R","D","E","R">>
sBY      == <<"B","Y">>
sNOT     == <<"N","O","T">>
sAND     == <<"A","N","D">>
sOR      == <<"O","R">>
sTRUE    == <<"T","R","U","E">>
sFALSE   == <<"F","A","L","S","E">>
sASC     == <<"A","S","C">>
sDESC    == <<"D","E","S","C">>
sINT     == <<"I","N","T">>
sVARCHAR == <<"V","A","R","C","H","A","R">>
sBOOL    == <<"B","O","O","L">>
sPRIMARY == <<"P","R","I","M","A","R","Y">>
sKEY     == <<"K","E","Y">>
sNULL    == <<"N","U","L","L">>
sCHECK   == <<"C","H","E","C","K">>

-----------------------------------------------------------------------------
(* tokenize: one iteration of the scanning loop, as a function of the      *)
(* characters consumed so far (p) and the tokens pushed so far (toks).     *)

Peek(s, p) == IF p < Len(s) THEN s[p + 1] ELSE "<none>"

AtEnd(s, p) == p >= Len(s)

\* chars.next(): consumes one character if there is one
Advance(s, p) == IF p < Len(s) THEN p + 1 ELSE p

\* the string-literal loop: the position after the closing quote, or the end
RECURSIVE StringEnd(_, _, _)
StringEnd(s, p, quote) ==
    IF AtEnd(s, p) THEN [p |-> p, closed |-> FALSE]
    ELSE IF s[p + 1] = quote THEN [p |-> p + 1, closed |-> TRUE]
    ELSE StringEnd(s, p + 1, quote)

\* the identifier loop: the position after the last character of the run
RECURSIVE IdentEnd(_, _)
IdentEnd(s, p) ==
    IF ~AtEnd(s, p) /\ (is_alphanumeric(s[p + 1]) \/ s[p + 1] = "_" \/ s[p + 1] = ".")
    THEN IdentEnd(s, p + 1)
    ELSE p

\* the VARCHAR length loop: the position after the last digit
RECURSIVE DigitsEnd(_, _)
DigitsEnd(s, p) ==
    IF ~AtEnd(s, p) /\ is_digit(s[p + 1]) THEN DigitsEnd(s, p + 1) ELSE p

Slice(s, from, to) == SubSeq(s, from + 1, to)

KeywordWords == {sSELECT, sFROM, sWHERE, sCREATE, sTABLE, sORDER, sBY, sNOT}

\* the match on the upper-cased run, for every word but VARCHAR
ClassifyWord(ident) ==
    LET upper == to_uppercase(ident) IN
    IF upper \in KeywordWords THEN Keyword(upper)
    ELSE IF upper \in {sAND, sOR} THEN Operator(upper)
    ELSE IF upper = sTRUE THEN BoolLiteral(TRUE)
    ELSE IF upper = sFALSE THEN BoolLiteral(FALSE)
    ELSE IF upper = sASC THEN Asc
    ELSE IF upper = sDESC THEN Desc
    ELSE IF upper = sINT THEN IntTok
    ELSE IF upper = sBOOL THEN Bool
    ELSE IF upper = sPRIMARY THEN PrimaryKey
    ELSE IF upper = sKEY THEN Keyword(sKEY)
    ELSE IF upper = sNULL THEN Keyword(sNULL)
    ELSE IF upper = sCHECK THEN Check
    ELSE IF parse_i64(ident).ok THEN Number(parse_i64(ident).n)
    ELSE Identifier(ident)

\* the "VARCHAR" arm: a character, the digits, a character
VarcharArm(s, e, ident) ==
    LET p1 == Advance(s, e)
        p2 == DigitsEnd(s, p1)
        p3 == Advance(s, p2)
        len == parse_u64(Slice(s, p1, p2))
    IN  [p |-> p3, tok |-> IF len.ok THEN Varchar(len.n) ELSE Identifier(ident)]

\* the default arm: an identifier-like run
IdentArm(s, p) ==
    LET e == IdentEnd(s, p)
        ident == Slice(s, p, e)
    IN  IF to_uppercase(ident) = sVARCHAR
        THEN VarcharArm(s, e, ident)
        ELSE [p |-> e, tok |-> ClassifyWord(ident)]

TokenizeIteration(s, p, toks) ==
    LET ch == s[p + 1] IN
    IF is_whitespace(ch) THEN [p |-> p + 1, toks |-> toks]
    ELSE IF ch = "," THEN [p |-> p + 1, toks |-> Append(toks, Comma)]
    ELSE IF ch = ";" THEN [p |-> p + 1, toks |-> Append(toks, Semicolon)]
    ELSE IF ch = "(" THEN [p |-> p + 1, toks |-> Append(toks, LParen)]
    ELSE IF ch = ")" THEN [p |-> p + 1, toks |-> Append(toks, RParen)]
    ELSE IF ch = "*" THEN [p |-> p + 1, toks |-> Append(toks, Star)]
    ELSE IF ch \in {"<", ">"} THEN
        IF Peek(s, p + 1) = "="
        THEN [p |-> p + 2, toks |-> Append(toks, Operator(<<ch, "=">>))]
        ELSE [p |-> p + 1, toks |-> Append(toks, Operator(<<ch>>))]
    ELSE IF ch = "=" THEN [p |-> p + 1, toks |-> Append(toks, Operator(<<"=">>))]
    ELSE IF ch \in {"+", "-", "/"} THEN [p |-> p + 1, toks |-> Append(toks, Operator(<<ch>>))]
    ELSE IF ch \in {"'", "\""} THEN
        LET q == StringEnd(s, p + 1, ch) IN
        [p |-> q.p,
         toks |-> Append(toks, StringLiteral(
                     Slice(s, p + 1, IF q.closed THEN q.p - 1 ELSE q.p)))]
    ELSE LET r == IdentArm(s, p) IN [p |-> r.p, toks |-> Append(toks, r.tok)]

-----------------------------------------------------------------------------
(* Expression trees *)

ENumber(n)     == [e |-> "Number", n |-> n]
EIdentifier(s) == [e |-> "Identifier", s |-> s]
EString(s)     == [e |-> "String", s |-> s]
EBool(b)       == [e |-> "Bool", b |-> b]
UnaryOp(op, expr)         == [e |-> "UnaryOp", op |-> op, expr |-> expr]
BinaryOp(left, op, right) == [e |-> "BinaryOp", left |-> left, op |-> op, right |-> right]
Op(name)   == [b |-> name]                  \* a UnaryOperator or BinaryOperator variant
Unknown(s) == [b |-> "Unknown", s |-> s]    \* BinaryOperator::Unknown(text)

\* get_precedence with AND on the level of OR
get_precedence_AndAsOr(op) ==
    IF op \in {sOR, sAND} THEN 1
    ELSE IF op \in {<<"=">>, <<"<">>, <<">">>, <<"<", "=">>, <<">", "=">>} THEN 3
    ELSE IF op \in {<<"+">>, <<"-">>} THEN 4
    ELSE IF op \in {<<"*">>, <<"/">>} THEN 5
    ELSE 0

get_precedence(op) ==
    IF op = sOR THEN 1
    ELSE IF op = sAND THEN 2
    ELSE IF op \in {<<"=">>, <<"<">>, <<">">>, <<"<", "=">>, <<">", "=">>} THEN 3
    ELSE IF op \in {<<"+">>, <<"-">>} THEN 4
    ELSE IF op \in {<<"*">>, <<"/">>} THEN 5
    ELSE 0

to_binary_operator(op) ==
    IF op = sOR THEN Op("Or")
    ELSE IF op = sAND THEN Op("And")
    ELSE IF op = <<"=">> THEN Op("Equal")
    ELSE IF op = <<"!", "=">> THEN Op("NotEqual")
    ELSE IF op = <<"<">> THEN Op("Less")
    ELSE IF op = <<"<", "=">> THEN Op("LessEqual")
    ELSE IF op = <<">">> THEN Op("Greater")
    ELSE IF op = <<">", "=">> THEN Op("GreaterEqual")
    ELSE IF op = <<"+">> THEN Op("Add")
    ELSE IF op = <<"-">> THEN Op("Subtract")
    ELSE IF op = <<"*">> THEN Op("Multiply")
    ELSE IF op = <<"/">> THEN Op("Divide")
    ELSE Unknown(op)

\* NOT parsing its operand at the level of the loosest binary operator
NotPrecedence_Loosest == get_precedence(sOR)

\* the minimum precedence NOT parses its operand at
NotPrecedence == 6

\* the right operand parsed at the operator's own precedence
RhsPrecedence_Same(prec) == prec

\* the minimum precedence of the right operand of an operator of precedence prec
RhsPrecedence(prec) == prec + 1

ExprOk(expr, n) == [ok |-> TRUE, expr |-> expr, consumed |-> n]
ExprErr(msg)    == [ok |-> FALSE, err |-> msg]

\* tokens.get(pos)
Get(toks, i) == IF i < Len(toks) THEN toks[i + 1] ELSE [t |-> "<none>"]

\* &tokens[pos..]
From(toks, i) == SubSeq(toks, i + 1, Len(toks))

RECURSIVE parse_expression(_, _), ParsePrimary(_), ParseBinaryLoop(_, _, _, _)

\* lines 45-84: the primary, with the number of tokens it took
ParsePrimary(toks) ==
    LET tk == Get(toks, 0) IN
    IF tk.t = "Number" THEN ExprOk(ENumber(tk.n), 1)
    ELSE IF tk.t = "StringLiteral" THEN ExprOk(EString(tk.s), 1)
    ELSE IF tk.t = "BoolLiteral" THEN ExprOk(EBool(tk.b), 1)
    ELSE IF tk.t = "Identifier" THEN ExprOk(EIdentifier(tk.s), 1)
    ELSE IF tk = Keyword(sNOT) THEN
        LET inner == parse_expression(From(toks, 1), NotPrecedence) IN
        IF inner.ok THEN ExprOk(UnaryOp(Op("Not"), inner.expr), 1 + inner.consumed)
        ELSE inner
    ELSE IF tk.t = "LParen" THEN
        LET inner == parse_expression(From(toks, 1), 0) IN
        IF ~inner.ok THEN inner
        ELSE IF Get(toks, 1 + inner.consumed).t = "RParen"
             THEN ExprOk(inner.expr, 1 + inner.consumed + 1)
             ELSE ExprErr("Expected ')'")
    ELSE ExprErr("Unexpected token at beginning of expression")

\* lines 86-113: the operator loop
ParseBinaryLoop(toks, min_prec, lhs, p) ==
    LET tk == Get(toks, p) IN
    IF tk.t # "Operator" THEN ExprOk(lhs, p)
    ELSE LET prec == get_precedence(tk.s) IN
         IF prec < min_prec THEN ExprOk(lhs, p)
         ELSE LET rhs == parse_expression(From(toks, p + 1), RhsPrecedence(prec)) IN
              IF ~rhs.ok THEN rhs
              ELSE ParseBinaryLoop(toks, min_prec,
                                   BinaryOp(lhs, to_binary_operator(tk.s), rhs.expr),
                                   p + 1 + rhs.consumed)

parse_expression(toks, min_prec) ==
    LET prim == ParsePrimary(toks) IN
    IF ~prim.ok THEN prim
    ELSE ParseBinaryLoop(toks, min_prec, prim.expr, prim.consumed)

-----------------------------------------------------------------------------
(* Statements and results *)

NoneWhere       == [w |-> "None"]
SomeWhere(expr) == [w |-> "Some", expr |-> expr]
NoOrder         == [o |-> "None"]
SomeOrder(name) == [o |-> "Some", order |-> name]     \* Some(Order::Asc), Some(Order::Desc)
OrderKey(expr, order) == [expr |-> expr, order |-> order]

DBInt          == [d |-> "Int"]
DBVarchar(len) == [d |-> "Varchar", n |-> len]
DBBool         == [d |-> "Bool"]
NoType         == [d |-> "<unset>"]

CPrimaryKey  == [c |-> "PrimaryKey"]
CNotNull     == [c |-> "NotNull"]
CCheck(expr) == [c |-> "Check", expr |-> expr]

TableColumn(name, type, constraints) ==
    [column_name |-> name, column_type |-> type, constraints |-> constraints]

Select(columns, from, where, orderby) ==
    [st |-> "Select", columns |-> columns, from |-> from, where |-> where,
     orderby |-> orderby]

CreateTable(name, column_list) ==
    [st |-> "CreateTable", table_name |-> name, column_list |-> column_list]

Pending        == [kind |-> "Pending"]                \* parse has not returned
Ok(stmt)       == [kind |-> "Ok", stmt |-> stmt]
Err(msg)       == [kind |-> "Err", msg |-> msg]        \* msg: the parts of the message
ErrTok(msg, tok) == [kind |-> "Err", msg |-> msg, tok |-> tok]  \* a message ending in {:?} of tok
Panic(msg)     == [kind |-> "Panic", msg |-> msg]

SelInit == [columns |-> <<>>, from |-> <<>>, where |-> NoneWhere, orderby |-> <<>>]
CtInit  == [table_name |-> <<>>, column_list |-> <<>>, column_name |-> <<>>,
            column_type |-> NoType, constraints |-> <<>>]

-----------------------------------------------------------------------------
(* The token iterator of parse: iter.peek(), iter.next()                   *)

HasNext(toks, it) == it < Len(toks)

\* iter.peek().map_or(all_tokens.len(), |(idx, _)| *idx)
StartIndex(toks, it) == IF HasNext(toks, it) THEN it ELSE Len(toks)

\* the cursor left where it was
SkipConsumed_None(toks, it, n) == it

\* for _ in 0..consumed { if iter.next().is_none() { break; } }
RECURSIVE SkipConsumed(_, _, _)
SkipConsumed(toks, it, n) ==
    IF n = 0 \/ ~HasNext(toks, it) THEN it ELSE SkipConsumed(toks, it + 1, n - 1)

\* the scan of a parenthesized column entry, lines 71-83
RECURSIVE ScanParen(_, _, _, _)
ScanParen(toks, it, paren_level, inner_tokens) ==
    IF ~HasNext(toks, it) THEN [it |-> it, inner |-> inner_tokens, eof |-> FALSE]
    ELSE LET token == toks[it + 1]
             inner == Append(inner_tokens, token)
             level == IF token.t = "LParen" THEN paren_level + 1
                      ELSE IF token.t = "RParen" THEN paren_level - 1
                      ELSE paren_level
         IN  IF token.t = "EOF" THEN [it |-> it + 1, inner |-> inner, eof |-> TRUE]
             ELSE IF level = 0 THEN [it |-> it + 1, inner |-> inner, eof |-> FALSE]
             ELSE ScanParen(toks, it + 1, level, inner)

-----------------------------------------------------------------------------
(* parse and its statement parsers, one step at a time. A step takes the   *)
(* tokens and the parser's locals (a record s: iter, sel, ct, start_index, *)
(* consumed, pc, result) and gives the locals after the step.              *)

Return(s, r) == [s EXCEPT !.pc = "done", !.result = r]

\* lines 45-53
parse(toks, s) ==
    LET first == Get(toks, 0)
        s1 == [s EXCEPT !.iter = IF HasNext(toks, 0) THEN 1 ELSE 0]
    IN  IF first = Keyword(sSELECT) THEN [s1 EXCEPT !.pc = "select_columns"]
        ELSE IF first = Keyword(sCREATE) THEN [s1 EXCEPT !.pc = "create_table"]
        ELSE Return(s1, Err(<<"Unsupported or invalid SQL statement">>))

PushColumn(s, expr) ==
    [s EXCEPT !.iter = s.iter + 1, !.sel.columns = Append(s.sel.columns, expr)]

\* lines 67-87: a parenthesized column entry; s.iter is already past the '('
ParenColumn(toks, s) ==
    LET scan == ScanParen(toks, s.iter, 1, <<LParen>>)
        s1 == [s EXCEPT !.iter = scan.it]
        n == Len(scan.inner)
    IN  IF scan.eof THEN Return(s1, Err(<<"Unclosed parenthesis">>))
        ELSE IF n - 1 < 1
             THEN Return(s1, Panic(<<"slice index starts at 1 but ends at 0">>))
        ELSE LET r == parse_expression(SubSeq(scan.inner, 2, n - 1), 0) IN
             IF r.ok THEN [s1 EXCEPT !.sel.columns = Append(s.sel.columns, r.expr)]
             ELSE Return(s1, Err(<<"Error parsing expression in parentheses: ", r.err>>))

\* lines 60-93: one iteration of the column loop
SelectColumnStep(toks, s) ==
    IF ~HasNext(toks, s.iter) THEN Return(s, Err(<<"Expected FROM clause">>))
    ELSE LET token == toks[s.iter + 1] IN
         IF token.t = "Identifier" THEN PushColumn(s, EIdentifier(token.s))
         ELSE IF token.t = "StringLiteral" THEN PushColumn(s, EString(token.s))
         ELSE IF token.t = "Number" THEN PushColumn(s, ENumber(token.n))
         ELSE IF token.t = "BoolLiteral" THEN PushColumn(s, EBool(token.b))
         ELSE IF token.t = "Star" THEN PushColumn(s, EIdentifier(<<"*">>))
         ELSE IF token.t = "LParen" THEN ParenColumn(toks, [s EXCEPT !.iter = s.iter + 1])
         ELSE IF token.t = "Comma" THEN [s EXCEPT !.iter = s.iter + 1]
         ELSE IF token = Keyword(sFROM)
              THEN [s EXCEPT !.iter = s.iter + 1, !.pc = "select_from"]
         ELSE Return([s EXCEPT !.iter = s.iter + 1],
                     ErrTok(<<"Unexpected token in SELECT columns: ">>, token))

\* any token after FROM taken for the table name
SelectFromStep_AnyToken(toks, s) ==
    IF ~HasNext(toks, s.iter) THEN Return(s, Err(<<"Expected table name after FROM">>))
    ELSE LET token == toks[s.iter + 1] IN
         [s EXCEPT !.iter = s.iter + 1,
                   !.sel.from = IF token.t = "Identifier" THEN token.s ELSE <<>>,
                   !.pc = "select_where"]

\* lines 95-99
SelectFromStep(toks, s) ==
    IF ~HasNext(toks, s.iter) THEN Return(s, Err(<<"Expected table name after FROM">>))
    ELSE LET token == toks[s.iter + 1]
             s1 == [s EXCEPT !.iter = s.iter + 1]
         IN  IF token.t = "Identifier"
             THEN [s1 EXCEPT !.sel.from = token.s, !.pc = "select_where"]
             ELSE Return(s1, ErrTok(<<"Expected table name after FROM, got: ">>, token))

\* lines 101-116
SelectWhereStep(toks, s) ==
    IF Get(toks, s.iter) # Keyword(sWHERE) THEN [s EXCEPT !.pc = "select_order"]
    ELSE LET it == s.iter + 1
             start == StartIndex(toks, it)
             r == parse_expression(From(toks, start), 0)
         IN  IF ~r.ok
             THEN Return([s EXCEPT !.iter = it, !.start_index = start],
                         Err(<<"Error parsing WHERE clause: ", r.err>>))
             ELSE [s EXCEPT !.iter = SkipConsumed(toks, it, r.consumed),
                            !.start_index = start,
                            !.consumed = r.consumed,
                            !.sel.where = SomeWhere(r.expr),
                            !.pc = "select_order"]

SelectResult(s) == Ok(Select(s.sel.columns, s.sel.from, s.sel.where, s.sel.orderby))

\* lines 118-123, 152-159: ORDER and BY
SelectOrderStep(toks, s) ==
    IF Get(toks, s.iter) # Keyword(sORDER) THEN Return(s, SelectResult(s))
    ELSE LET it == s.iter + 1
             s1 == [s EXCEPT !.iter = IF HasNext(toks, it) THEN it + 1 ELSE it]
         IN  IF Get(toks, it) = Keyword(sBY) THEN [s1 EXCEPT !.pc = "select_order_key"]
             ELSE Return(s1, Err(<<"Expected BY after ORDER">>))

\* lines 124-151: one iteration of the ORDER BY loop
SelectOrderKeyStep(toks, s) ==
    LET start == StartIndex(toks, s.iter)
        r == parse_expression(From(toks, start), 0)
    IN  IF ~r.ok
        THEN Return([s EXCEPT !.start_index = start],
                    Err(<<"Error parsing ORDER BY expression: ", r.err>>))
        ELSE LET peeked == Get(toks, s.iter)
                 order == IF peeked.t = "Asc" THEN SomeOrder("Asc")
                          ELSE IF peeked.t = "Desc" THEN SomeOrder("Desc")
                          ELSE NoOrder
                 it1 == IF peeked.t \in {"Asc", "Desc"} THEN s.iter + 1 ELSE s.iter
                 it2 == SkipConsumed(toks, it1, r.consumed)
                 s1 == [s EXCEPT !.start_index = start,
                                 !.consumed = r.consumed,
                                 !.sel.orderby = Append(s.sel.orderby, OrderKey(r.expr, order))]
             IN  IF Get(toks, it2).t = "Comma"
                 THEN [s1 EXCEPT !.iter = it2 + 1]
                 ELSE Return([s1 EXCEPT !.iter = it2], SelectResult(s1))

\* iter.next(): the iterator after it
NextIter(toks, it) == IF HasNext(toks, it) THEN it + 1 ELSE it

\* lines 173-177, 201-212: TABLE, the table name, '('
CreateTableStep(toks, s) ==
    LET k == Get(toks, s.iter)
        it1 == NextIter(toks, s.iter)
        name == Get(toks, it1)
        it2 == NextIter(toks, it1)
        open == Get(toks, it2)
        it3 == NextIter(toks, it2)
    IN  IF k.t # "Keyword"
        THEN Return([s EXCEPT !.iter = it1], Err(<<"Expected TABLE keyword">>))
        ELSE IF k # Keyword(sTABLE)
        THEN Return([s EXCEPT !.iter = it1], Err(<<"Expected TABLE after CREATE">>))
        ELSE IF name.t # "Identifier"
        THEN Return([s EXCEPT !.iter = it2], Err(<<"Expected table name after CREATE TABLE">>))
        ELSE IF open.t # "LParen"
        THEN Return([s EXCEPT !.iter = it3],
                    Err(<<"Expected opening parenthesis after table name">>))
        ELSE [s EXCEPT !.iter = it3, !.ct.table_name = name.s, !.pc = "create_loop"]

\* lines 178-184, 193-200: the head of one iteration of the column loop
CreateLoopStep(toks, s) ==
    LET token == Get(toks, s.iter)
        s1 == [s EXCEPT !.iter = NextIter(toks, s.iter)]
    IN  IF token.t = "RParen"
        THEN Return(s1, Ok(CreateTable(s.ct.table_name, s.ct.column_list)))
        ELSE IF token.t = "Identifier"
        THEN [s1 EXCEPT !.ct.column_name = token.s, !.pc = "column_type"]
        ELSE Return(s1, Err(<<"Expected column name">>))

\* lines 223-231: the column's type
ColumnTypeStep(toks, s) ==
    LET token == Get(toks, s.iter)
        s1 == [s EXCEPT !.iter = NextIter(toks, s.iter), !.ct.constraints = <<>>,
                        !.pc = "column_constraints"]
    IN  IF ~HasNext(toks, s.iter) THEN Return(s, Err(<<"Expected data type">>))
        ELSE IF token.t = "Int" THEN [s1 EXCEPT !.ct.column_type = DBInt]
        ELSE IF token.t = "Varchar" THEN [s1 EXCEPT !.ct.column_type = DBVarchar(token.n)]
        ELSE IF token.t = "Bool" THEN [s1 EXCEPT !.ct.column_type = DBBool]
        ELSE Return([s EXCEPT !.iter = s.iter + 1],
                    ErrTok(<<"Unexpected data type: ">>, token))

\* the constraint put in front
PushConstraint_Front(constraints, c) == <<c>> \o constraints

\* constraints.push(c)
PushConstraint(constraints, c) == Append(constraints, c)

\* lines 255-275: the Check arm; s.iter is at the Check token
CheckArm(toks, s) ==
    LET it1 == s.iter + 1
        it2 == NextIter(toks, it1)
        start == StartIndex(toks, it2)
        r == parse_expression(From(toks, start), 0)
    IN  IF Get(toks, it1).t # "LParen"
        THEN Return([s EXCEPT !.iter = it2],
                    Err(<<"Expected opening parenthesis after CHECK">>))
        ELSE IF ~r.ok
        THEN Return([s EXCEPT !.iter = it2, !.start_index = start],
                    Err(<<"Error parsing CHECK expression: ", r.err>>))
        ELSE LET it3 == SkipConsumed(toks, it2, r.consumed)
                 s1 == [s EXCEPT !.iter = NextIter(toks, it3),
                                 !.start_index = start,
                                 !.consumed = r.consumed,
                                 !.ct.constraints = PushConstraint(s.ct.constraints,
                                                                   CCheck(r.expr))]
             IN  IF Get(toks, it3).t = "RParen" THEN s1
                 ELSE Return(s1, Err(<<"Expected closing parenthesis after CHECK expression">>))

\* lines 232-279: one iteration of the constraint loop
ColumnConstraintStep(toks, s) ==
    LET token == Get(toks, s.iter) IN
    IF token.t = "PrimaryKey" THEN
        [s EXCEPT !.ct.constraints = PushConstraint(s.ct.constraints, CPrimaryKey),
                  !.iter = IF Get(toks, s.iter + 1) = Keyword(sKEY)
                           THEN s.iter + 2 ELSE s.iter + 1]
    ELSE IF token = Keyword(sNOT) THEN
        LET s1 == [s EXCEPT !.iter = NextIter(toks, s.iter + 1)] IN
        IF Get(toks, s.iter + 1) = Keyword(sNULL)
        THEN [s1 EXCEPT !.ct.constraints = PushConstraint(s.ct.constraints, CNotNull)]
        ELSE Return(s1, Err(<<"Expected NULL after NOT">>))
    ELSE IF token.t = "Check" THEN CheckArm(toks, s)
    ELSE [s EXCEPT !.pc = "column_done"]

\* lines 281-285 and 184-192: the column is returned and pushed; ',' or ')'
ColumnDoneStep(toks, s) ==
    LET column == TableColumn(s.ct.column_name, s.ct.column_type, s.ct.constraints)
        s1 == [s EXCEPT !.ct.column_list = Append(s.ct.column_list, column),
                        !.pc = "create_loop"]
        token == Get(toks, s.iter)
    IN  IF token.t = "Comma" THEN [s1 EXCEPT !.iter = s.iter + 1]
        ELSE IF token.t = "RParen" THEN s1
        ELSE Return(s1, Err(<<"Expected comma or closing parenthesis after column definition">>))

-----------------------------------------------------------------------------
(* Inputs. A text goes through tokenize; a token sequence is handed to the *)
(* parsers as it is (parse_expression and parse are public functions of    *)
(* slices, so any slice is an input, with or without a final EOF).         *)

\* a OR b AND c
T_Precedence ==
    <<"a"," ","O","R"," ","b"," ","A","N","D"," ","c">>

\* 1 - 2 - 3
T_LeftAssoc ==
    <<"1"," ","-"," ","2"," ","-"," ","3">>

\* (1 + 2) * 3
T_Paren ==
    <<"(","1"," ","+"," ","2",")"," ","*"," ","3">>

\* NOT a AND b
T_Not ==
    <<"N","O","T"," ","a"," ","A","N","D"," ","b">>

\* SELECT a, b FROM t WHERE a = 1 ORDER BY b DESC
T_Select ==
    <<"S","E","L","E","C","T"," ","a",","," ","b"," ","F","R","O","M"," ",
      "t"," ","W","H","E","R","E"," ","a"," ","="," ","1"," ","O","R","D",
      "E","R"," ","B","Y"," ","b"," ","D","E","S","C">>

\* CREATE TABLE t (id INT PRIMARY KEY NOT NULL, name VARCHAR(10) CHECK(name != ''))
T_Create ==
    <<"C","R","E","A","T","E"," ","T","A","B","L","E"," ","t"," ","(","i",
      "d"," ","I","N","T"," ","P","R","I","M","A","R","Y"," ","K","E","Y",
      " ","N","O","T"," ","N","U","L","L",","," ","n","a","m","e"," ","V",
      "A","R","C","H","A","R","(","1","0",")"," ","C","H","E","C","K","(",
      "n","a","m","e"," ","!","="," ","'","'",")",")">>

\* CREATE TABLE t (id INT PRIMARY KEY NOT NULL, name VARCHAR(10) CHECK(name = ''))
T_CreateEq ==
    <<"C","R","E","A","T","E"," ","T","A","B","L","E"," ","t"," ","(","i",
      "d"," ","I","N","T"," ","P","R","I","M","A","R","Y"," ","K","E","Y",
      " ","N","O","T"," ","N","U","L","L",","," ","n","a","m","e"," ","V",
      "A","R","C","H","A","R","(","1","0",")"," ","C","H","E","C","K","(",
      "n","a","m","e"," ","="," ","'","'",")",")">>

\* SELECT a FROM
T_NoTable ==
    <<"S","E","L","E","C","T"," ","a"," ","F","R","O","M">>

\* varchar(abc)
T_VarcharBad ==
    <<"v","a","r","c","h","a","r","(","a","b","c",")">>

\* varchar()
T_VarcharEmpty ==
    <<"v","a","r","c","h","a","r","(",")">>

\* x VarChar
T_VarcharEnd ==
    <<"x"," ","V","a","r","C","h","a","r">>

\* select x.y, 'it', "q" from T_1 where x.y >= 007 or false;
T_Mixed ==
    <<"s","e","l","e","c","t"," ","x",".","y",","," ","'","i","t","'",",",
      " ","\"","q","\""," ","f","r","o","m"," ","T","_","1"," ","w","h","e",
      "r","e"," ","x",".","y"," ",">","="," ","0","0","7"," ","o","r"," ",
      "f","a","l","s","e",";">>

\* b <= 'abc
T_Unterminated ==
    <<"b"," ","<","="," ","'","a","b","c">>

\* c > 9223372036854775808 / 0042
T_BigNumber ==
    <<"c"," ",">"," ","9","2","2","3","3","7","2","0","3","6","8","5","4",
      "7","7","5","8","0","8"," ","/"," ","0","0","4","2">>

\* asc bool key null true 12 \t-
T_Types ==
    <<"a","s","c"," ","b","o","o","l"," ","k","e","y"," ","n","u","l","l",
      " ","t","r","u","e"," ","1","2"," ","\t","-">>

NamedTexts ==
    {T_Precedence, T_LeftAssoc, T_Paren, T_Not,
     T_Select, T_Create, T_CreateEq, T_NoTable,
     T_VarcharBad, T_VarcharEmpty, T_VarcharEnd, T_Mixed,
     T_Unterminated, T_BigNumber, T_Types}

\* the characters of the short texts
TextAlphabet == {"a", "1", " ", "!", "(", "<", "=", "'"}

MaxTextLen == 2

SeqsUpTo(S, n) == UNION {[1..k -> S] : k \in 0..n}

ShortTexts == SeqsUpTo(TextAlphabet, MaxTextLen)

\* names
nA == <<"a">>
nB == <<"b">>
nC == <<"c">>
nT == <<"t">>

\* x p y q z, for every pair of operator texts of the precedence table
TableOps == {sOR, sAND, <<"=">>, <<"<">>, <<">">>, <<"<", "=">>, <<">", "=">>,
             <<"+">>, <<"-">>, <<"*">>, <<"/">>}

OperandTriples == {<<Identifier(nA), Identifier(nB), Identifier(nC)>>,
                   <<Number(1), Number(2), Number(3)>>,
                   <<StringLiteral(nA), BoolLiteral(TRUE), Identifier(<<"x", ".", "y">>)>>}

\* the tree of a primary token
Leaf(tk) ==
    IF tk.t = "Number" THEN ENumber(tk.n)
    ELSE IF tk.t = "StringLiteral" THEN EString(tk.s)
    ELSE IF tk.t = "BoolLiteral" THEN EBool(tk.b)
    ELSE EIdentifier(tk.s)

Tail0(eof) == IF eof THEN <<EOF>> ELSE <<>>

ThreeOperands(src) ==
    <<src.x[1], Operator(src.p), src.x[2], Operator(src.q), src.x[3]>> \o Tail0(src.eof)

NotForms == {"plain", "double", "group"}

NotOperands(src) ==
    LET x == src.x[1]
        y == src.x[2]
        body == <<x, Operator(src.p), y>>
    IN  (IF src.form = "plain" THEN <<Keyword(sNOT)>> \o body
         ELSE IF src.form = "double" THEN <<Keyword(sNOT), Keyword(sNOT)>> \o body
         ELSE <<Keyword(sNOT), LParen>> \o body \o <<RParen>>) \o Tail0(src.eof)

\* SELECT statements: a column list, a table, an optional WHERE predicate,
\* ORDER BY keys with their directions. Each form pairs the tokens written
\* with the tree they are written for.
ColumnForms ==
    {[toks |-> <<Identifier(nA), Comma, Identifier(nB)>>,
      cols |-> <<EIdentifier(nA), EIdentifier(nB)>>],
     [toks |-> <<Star>>,
      cols |-> <<EIdentifier(<<"*">>)>>],
     [toks |-> <<LParen, Identifier(nA), Operator(<<"+">>), Number(1), RParen, Comma,
                 StringLiteral(nB), Comma, BoolLiteral(FALSE), Comma, Number(5)>>,
      cols |-> <<BinaryOp(EIdentifier(nA), Op("Add"), ENumber(1)), EString(nB),
                 EBool(FALSE), ENumber(5)>>]}

Predicates ==
    {[toks |-> <<Identifier(nA), Operator(<<"=">>), Number(1)>>,
      tree |-> BinaryOp(EIdentifier(nA), Op("Equal"), ENumber(1))],
     [toks |-> <<Keyword(sNOT), Identifier(nA)>>,
      tree |-> UnaryOp(Op("Not"), EIdentifier(nA))],
     [toks |-> <<LParen, Identifier(nA), Operator(sOR), Identifier(nB), RParen,
                 Operator(sAND), Identifier(nC), Operator(<<"<">>), Number(2)>>,
      tree |-> BinaryOp(BinaryOp(EIdentifier(nA), Op("Or"), EIdentifier(nB)),
                        Op("And"),
                        BinaryOp(EIdentifier(nC), Op("Less"), ENumber(2)))]}

NoPredicate == [toks |-> <<>>]

KeyExprs ==
    {[toks |-> <<Identifier(nB)>>, tree |-> EIdentifier(nB)],
     [toks |-> <<Identifier(nC), Operator(<<"+">>), Number(1)>>,
      tree |-> BinaryOp(EIdentifier(nC), Op("Add"), ENumber(1))]}

Directions == {"Asc", "Desc", "None"}

KeyForms == {[key |-> k, dir |-> d] : k \in KeyExprs, d \in Directions}

MaxKeys == 2

KeyTokens(k) ==
    k.key.toks \o (IF k.dir = "Asc" THEN <<Asc>> ELSE IF k.dir = "Desc" THEN <<Desc>>
                   ELSE <<>>)

RECURSIVE KeyListTokens(_)
KeyListTokens(keys) ==
    IF keys = <<>> THEN <<>>
    ELSE IF Len(keys) = 1 THEN KeyTokens(keys[1])
    ELSE KeyTokens(keys[1]) \o <<Comma>> \o KeyListTokens(Tail(keys))

SelectTokens(src) ==
    <<Keyword(sSELECT)>> \o src.cols.toks \o <<Keyword(sFROM), Identifier(nT)>>
    \o (IF src.where = NoPredicate THEN <<>> ELSE <<Keyword(sWHERE)>> \o src.where.toks)
    \o (IF src.keys = <<>> THEN <<>>
        ELSE <<Keyword(sORDER), Keyword(sBY)>> \o KeyListTokens(src.keys))
    \o <<EOF>>

\* SELECT ... FROM followed by something that is no table name
NotATableName ==
    {EOF, Number(1), Keyword(sWHERE), Keyword(sFROM), Star, LParen, Comma,
     StringLiteral(nT), IntTok, Operator(<<"=">>)}

FromTails == {<<>>} \cup {<<x>> : x \in NotATableName}
                    \cup {<<x, Identifier(nT), EOF>> : x \in NotATableName}

NoTableTokens(src) == <<Keyword(sSELECT)>> \o src.cols.toks \o <<Keyword(sFROM)>> \o src.tail

\* CREATE TABLE statements, written as a sequence of items: a type item opens
\* a column, a constraint item adds a constraint to the column last opened.
TypeItems ==
    {[i |-> "type", tok |-> IntTok, ty |-> DBInt],
     [i |-> "type", tok |-> Varchar(10), ty |-> DBVarchar(10)],
     [i |-> "type", tok |-> Bool, ty |-> DBBool]}

CheckPredicate == CHOOSE p \in Predicates : p.toks[1] = Identifier(nA)

ConstraintItems ==
    {[i |-> "constraint", toks |-> <<PrimaryKey>>, con |-> CPrimaryKey],
     [i |-> "constraint", toks |-> <<PrimaryKey, Keyword(sKEY)>>, con |-> CPrimaryKey],
     [i |-> "constraint", toks |-> <<Keyword(sNOT), Keyword(sNULL)>>, con |-> CNotNull],
     [i |-> "constraint", toks |-> <<Check, LParen>> \o CheckPredicate.toks \o <<RParen>>,
      con |-> CCheck(CheckPredicate.tree)]}

MaxItems == 3

ItemLists ==
    {s \in SeqsUpTo(TypeItems \cup ConstraintItems, MaxItems) :
        s = <<>> \/ s[1].i = "type"}

ColName(k) == <<"c", Digits[k + 1]>>

RECURSIVE ItemTokens(_, _)
ItemTokens(items, ncols) ==
    IF items = <<>> THEN <<>>
    ELSE LET it == items[1] IN
         IF it.i = "type"
         THEN (IF ncols > 0 THEN <<Comma>> ELSE <<>>)
              \o <<Identifier(ColName(ncols + 1)), it.tok>>
              \o ItemTokens(Tail(items), ncols + 1)
         ELSE it.toks \o ItemTokens(Tail(items), ncols)

CreateTokens(src) ==
    <<Keyword(sCREATE), Keyword(sTABLE), Identifier(nT), LParen>>
    \o ItemTokens(src.items, 0) \o <<RParen, EOF>>

\* the statement of the specification's CREATE TABLE example, with a predicate
\* the tokenizer can produce
ExampleItems ==
    <<CHOOSE x \in TypeItems : x.tok = IntTok,
      CHOOSE x \in ConstraintItems : x.toks = <<PrimaryKey, Keyword(sKEY)>>,
      CHOOSE x \in ConstraintItems : x.con = CNotNull,
      CHOOSE x \in TypeItems : x.tok = Varchar(10),
      CHOOSE x \in ConstraintItems : x.toks[1] = Check>>

\* any slice of tokens up to a length
AnyAlphabet ==
    {Keyword(sSELECT), Keyword(sCREATE), Keyword(sFROM), Keyword(sTABLE),
     Keyword(sWHERE), Keyword(sORDER), LParen, RParen, Identifier(nA), Comma,
     Check, EOF}

MaxAnyLen == 3

AnySlices == SeqsUpTo(AnyAlphabet, MaxAnyLen)

\* SELECT ( span ) FROM t: a parenthesized column entry whose '(' is closed by
\* the ')' written after the span
SpanAlphabet ==
    {Identifier(nA), Number(1), Operator(<<"+">>), Keyword(sNOT), LParen, RParen}

MaxSpanLen == 3

\* the nesting depth after the tokens, or -1 once a ')' closes more than was opened
RECURSIVE Depth(_, _)
Depth(span, d) ==
    IF d < 0 \/ span = <<>> THEN d
    ELSE Depth(Tail(span), IF span[1].t = "LParen" THEN d + 1
                           ELSE IF span[1].t = "RParen" THEN d - 1
                           ELSE d)

Spans == {x \in SeqsUpTo(SpanAlphabet, MaxSpanLen) : Depth(x, 0) = 0}

ParenTokens(src) ==
    <<Keyword(sSELECT), LParen>> \o src.span
    \o <<RParen, Keyword(sFROM), Identifier(nT), EOF>>

Sources ==
    {[fam |-> "text", text |-> x] : x \in NamedTexts \cup ShortTexts}
    \cup {[fam |-> "operands", p |-> p, q |-> q, x |-> x, eof |-> e] :
            p \in TableOps, q \in TableOps, x \in OperandTriples, e \in BOOLEAN}
    \cup {[fam |-> "not", form |-> f, p |-> p, x |-> x, eof |-> e] :
            f \in NotForms, p \in TableOps, x \in OperandTriples, e \in BOOLEAN}
    \cup {[fam |-> "select", cols |-> cl, where |-> w, keys |-> k] :
            cl \in ColumnForms, w \in Predicates \cup {NoPredicate},
            k \in SeqsUpTo(KeyForms, MaxKeys)}
    \cup {[fam |-> "notable", cols |-> cl, tail |-> tl] :
            cl \in ColumnForms, tl \in FromTails}
    \cup {[fam |-> "create", items |-> it] : it \in ItemLists \cup {ExampleItems}}
    \cup {[fam |-> "slice", toks |-> x] : x \in AnySlices}
    \cup {[fam |-> "paren", span |-> x] : x \in Spans}

SourceTokens(src) ==
    IF src.fam = "operands" THEN ThreeOperands(src)
    ELSE IF src.fam = "not" THEN NotOperands(src)
    ELSE IF src.fam = "select" THEN SelectTokens(src)
    ELSE IF src.fam = "notable" THEN NoTableTokens(src)
    ELSE IF src.fam = "create" THEN CreateTokens(src)
    ELSE IF src.fam = "slice" THEN src.toks
    ELSE IF src.fam = "paren" THEN ParenTokens(src)
    ELSE <<>>

-----------------------------------------------------------------------------
(* The program *)

\* the scanning loop is cut off at this many tokens
MaxTokens == 30

Init ==
    /\ source \in Sources
    /\ text = IF source.fam = "text" THEN source.text ELSE <<>>
    /\ pos = 0
    /\ tokens = SourceTokens(source)
    /\ exprResult = [ok |-> FALSE, err |-> "<pending>"]
    /\ iter = 0
    /\ sel = SelInit
    /\ ct = CtInit
    /\ start_index = 0
    /\ consumed = 0
    /\ result = Pending
    /\ pc = IF source.fam = "text" THEN "tokenize" ELSE "expression"

parserVars == <<iter, sel, ct, start_index, consumed, result>>

\* tokenizer.rs lines 29-153: one iteration of the scanning loop
TokenizeStep ==
    /\ pc = "tokenize"
    /\ ~AtEnd(text, pos)
    /\ Len(tokens) < MaxTokens
    /\ LET r == TokenizeIteration(text, pos, tokens) IN
         /\ pos' = r.p
         /\ tokens' = r.toks
    /\ UNCHANGED <<source, text, exprResult, parserVars, pc>>

\* tokenizer.rs lines 155-156: the loop has ended
TokenizeEnd ==
    /\ pc = "tokenize"
    /\ AtEnd(text, pos)
    /\ tokens' = Append(tokens, EOF)
    /\ pc' = "expression"
    /\ UNCHANGED <<source, text, pos, exprResult, parserVars>>

\* main.rs lines 29-32
MainParseExpression ==
    /\ pc = "expression"
    /\ exprResult' = parse_expression(tokens, 0)
    /\ pc' = "parse"
    /\ UNCHANGED <<source, text, pos, tokens, parserVars>>

Locals ==
    [iter |-> iter, sel |-> sel, ct |-> ct, start_index |-> start_index,
     consumed |-> consumed, result |-> result, pc |-> pc]

Becomes(s) ==
    /\ iter' = s.iter
    /\ sel' = s.sel
    /\ ct' = s.ct
    /\ start_index' = s.start_index
    /\ consumed' = s.consumed
    /\ result' = s.result
    /\ pc' = s.pc
    /\ UNCHANGED <<source, text, pos, tokens, exprResult>>

Parse            == pc = "parse" /\ Becomes(parse(tokens, Locals))
SelectColumn     == pc = "select_columns" /\ Becomes(SelectColumnStep(tokens, Locals))
SelectFrom       == pc = "select_from" /\ Becomes(SelectFromStep(tokens, Locals))
SelectWhere      == pc = "select_where" /\ Becomes(SelectWhereStep(tokens, Locals))
SelectOrder      == pc = "select_order" /\ Becomes(SelectOrderStep(tokens, Locals))
SelectOrderKey   == pc = "select_order_key" /\ Becomes(SelectOrderKeyStep(tokens, Locals))
CreateTableHead  == pc = "create_table" /\ Becomes(CreateTableStep(tokens, Locals))
CreateLoop       == pc = "create_loop" /\ Becomes(CreateLoopStep(tokens, Locals))
ColumnType       == pc = "column_type" /\ Becomes(ColumnTypeStep(tokens, Locals))
ColumnConstraint == pc = "column_constraints" /\ Becomes(ColumnConstraintStep(tokens, Locals))
ColumnDone       == pc = "column_done" /\ Becomes(ColumnDoneStep(tokens, Locals))

Next ==
    \/ TokenizeStep
    \/ TokenizeEnd
    \/ MainParseExpression
    \/ Parse
    \/ SelectColumn
    \/ SelectFrom
    \/ SelectWhere
    \/ SelectOrder
    \/ SelectOrderKey
    \/ CreateTableHead
    \/ CreateLoop
    \/ ColumnType
    \/ ColumnConstraint
    \/ ColumnDone

Spec == Init /\ [][Next]_vars

-----------------------------------------------------------------------------
(* Properties *)

\* parse_expression(&tokens, 0) has returned
ExprDone == pc \notin {"tokenize", "expression"}

\* the precedence levels and the operator variants as the specification states them
StatedPrecedence(op) ==
    CASE op = sOR -> 1
      [] op = sAND -> 2
      [] op \in {<<"=">>, <<"<">>, <<">">>, <<"<", "=">>, <<">", "=">>} -> 3
      [] op \in {<<"+">>, <<"-">>} -> 4
      [] op \in {<<"*">>, <<"/">>} -> 5

StatedOperator(op) ==
    CASE op = sOR -> Op("Or")
      [] op = sAND -> Op("And")
      [] op = <<"=">> -> Op("Equal")
      [] op = <<"<">> -> Op("Less")
      [] op = <<">">> -> Op("Greater")
      [] op = <<"<", "=">> -> Op("LessEqual")
      [] op = <<">", "=">> -> Op("GreaterEqual")
      [] op = <<"+">> -> Op("Add")
      [] op = <<"-">> -> Op("Subtract")
      [] op = <<"*">> -> Op("Multiply")
      [] op = <<"/">> -> Op("Divide")

Bin(l, op, r) == BinaryOp(l, StatedOperator(op), r)

RightNested(src) ==
    Bin(Leaf(src.x[1]), src.p, Bin(Leaf(src.x[2]), src.q, Leaf(src.x[3])))

LeftNested(src) ==
    Bin(Bin(Leaf(src.x[1]), src.p, Leaf(src.x[2])), src.q, Leaf(src.x[3]))

IsText(x) == source.fam = "text" /\ source.text = x

\* C1: every iteration of the scanning loop of tokenize consumes at least one
\* character of the input (so that scanning reaches the end of any finite input
\* and tokenize returns).
C1_EveryIterationConsumes == [][TokenizeStep => pos' > pos]_vars

\* C2: for binary operators p and q among OR, AND, = < > <= >=, + -, / with
\* precedence(p) < precedence(q), x p y q z parses to (x p (y q z)) and, the
\* looser operator second, x q y p z parses to ((x q y) p z), all five tokens
\* consumed; "a OR b AND c" gives Or(a, And(b, c)).
C2_Precedence ==
    /\ (source.fam = "operands" /\ ExprDone /\ <<"*">> \notin {source.p, source.q}) =>
          /\ StatedPrecedence(source.p) < StatedPrecedence(source.q) =>
                exprResult = ExprOk(RightNested(source), 5)
          /\ StatedPrecedence(source.p) > StatedPrecedence(source.q) =>
                exprResult = ExprOk(LeftNested(source), 5)
    /\ (IsText(T_Precedence) /\ ExprDone) =>
          /\ exprResult.ok
          /\ exprResult.expr =
                BinaryOp(EIdentifier(nA), Op("Or"),
                         BinaryOp(EIdentifier(nB), Op("And"), EIdentifier(nC)))

C2_Witness ==
    /\ source.fam = "operands" /\ source.p = sOR /\ source.q = sAND
    /\ ExprDone
    /\ exprResult = ExprOk(RightNested(source), 5)

\* C3: for binary operators p and q of equal precedence, x p y q z parses to
\* ((x p y) q z), never to the right-nested tree, and 5 tokens are consumed;
\* "1 - 2 - 3" gives Subtract(Subtract(1, 2), 3) with 5 tokens consumed.
C3_LeftAssociative ==
    /\ (/\ source.fam = "operands" /\ ExprDone
        /\ StatedPrecedence(source.p) = StatedPrecedence(source.q)) =>
          /\ exprResult = ExprOk(LeftNested(source), 5)
          /\ exprResult.expr # RightNested(source)
    /\ (IsText(T_LeftAssoc) /\ ExprDone) =>
          exprResult =
            ExprOk(BinaryOp(BinaryOp(ENumber(1), Op("Subtract"), ENumber(2)),
                            Op("Subtract"), ENumber(3)), 5)

C3_Witness ==
    /\ source.fam = "operands" /\ source.p = <<"-">> /\ source.q = <<"+">>
    /\ ExprDone
    /\ exprResult = ExprOk(LeftNested(source), 5)

\* C4: the text "(1 + 2) * 3", tokenized and parsed as an expression at minimum
\* precedence 0, gives Multiply(Add(1, 2), 3), all 7 tokens before EOF consumed.
C4_ParenthesizedProduct ==
    (IsText(T_Paren) /\ ExprDone) =>
        exprResult =
          ExprOk(BinaryOp(BinaryOp(ENumber(1), Op("Add"), ENumber(2)),
                          Op("Multiply"), ENumber(3)), 7)

\* C5: NOT binds tighter than every binary operator p of the precedence table:
\* NOT x p y parses to ((NOT x) p y), never to NOT (x p y); the operand of NOT
\* extends over a binary operator only as a parenthesized group;
\* "NOT a AND b" gives And(Not(a), b).
C5_NotBindsTight ==
    /\ (source.fam = "not" /\ ExprDone) =>
          LET x == Leaf(source.x[1])
              y == Leaf(source.x[2])
              not(e) == UnaryOp(Op("Not"), e)
          IN  /\ source.form = "plain" =>
                    /\ exprResult = ExprOk(Bin(not(x), source.p, y), 4)
                    /\ exprResult.expr # not(Bin(x, source.p, y))
              /\ source.form = "double" =>
                    exprResult = ExprOk(Bin(not(not(x)), source.p, y), 5)
              /\ source.form = "group" =>
                    exprResult = ExprOk(not(Bin(x, source.p, y)), 6)
    /\ (IsText(T_Not) /\ ExprDone) =>
          /\ exprResult.ok
          /\ exprResult.expr =
                BinaryOp(UnaryOp(Op("Not"), EIdentifier(nA)), Op("And"), EIdentifier(nB))

C5_Witness ==
    /\ source.fam = "not" /\ source.form = "plain" /\ source.p = sAND
    /\ ExprDone
    /\ exprResult.ok
    /\ exprResult.expr.e = "BinaryOp"
    /\ exprResult.expr.left.e = "UnaryOp"

ExpectedKeys(keys) ==
    [i \in DOMAIN keys |->
        OrderKey(keys[i].key.tree,
                 IF keys[i].dir = "None" THEN NoOrder ELSE SomeOrder(keys[i].dir))]

ExpectedWhere(w) == IF w = NoPredicate THEN NoneWhere ELSE SomeWhere(w.tree)

\* C6: a SELECT with an ORDER BY clause returns every comma-separated key in
\* source order, each with the direction that trails it (Some(Asc), Some(Desc),
\* or None); "SELECT a, b FROM t WHERE a = 1 ORDER BY b DESC" gives columns
\* [a, b], from t, where Some(Equal(a, 1)), order_by [(b, Some(Desc))].
C6_OrderByKeys ==
    /\ (source.fam = "select" /\ pc = "done") =>
          result = Ok(Select(source.cols.cols, nT, ExpectedWhere(source.where),
                             ExpectedKeys(source.keys)))
    /\ (IsText(T_Select) /\ pc = "done") =>
          result = Ok(Select(<<EIdentifier(nA), EIdentifier(nB)>>, nT,
                             SomeWhere(BinaryOp(EIdentifier(nA), Op("Equal"), ENumber(1))),
                             <<OrderKey(EIdentifier(nB), SomeOrder("Desc"))>>))

\* the columns a sequence of items is written for
RECURSIVE ExpectedColumns(_, _)
ExpectedColumns(items, acc) ==
    IF items = <<>> THEN acc
    ELSE LET it == items[1]
             n == Len(acc)
         IN  IF it.i = "type"
             THEN ExpectedColumns(Tail(items),
                                  Append(acc, TableColumn(ColName(n + 1), it.ty, <<>>)))
             ELSE ExpectedColumns(Tail(items),
                    [acc EXCEPT ![n].constraints = Append(acc[n].constraints, it.con)])

\* C7: a CREATE TABLE statement that parses gives its columns in source order
\* and, for each column, one constraint per constraint written, in source order
\* (KEY after PRIMARY adds none); "id INT PRIMARY KEY NOT NULL" gives type Int
\* and [PrimaryKey, NotNull], "name VARCHAR(10) CHECK(p)" gives Varchar(10) and
\* the one constraint Check(p).
C7_CreateTableOrder ==
    /\ (source.fam = "create" /\ pc = "done") =>
          result = Ok(CreateTable(nT, ExpectedColumns(source.items, <<>>)))
    /\ (IsText(T_CreateEq) /\ pc = "done") =>
          result =
            Ok(CreateTable(nT,
                 <<TableColumn(<<"i", "d">>, DBInt, <<CPrimaryKey, CNotNull>>),
                   TableColumn(<<"n", "a", "m", "e">>, DBVarchar(10),
                     <<CCheck(BinaryOp(EIdentifier(<<"n", "a", "m", "e">>), Op("Equal"),
                                       EString(<<>>)))>>)>>))

C7_Witness ==
    /\ source.fam = "create" /\ source.items = ExampleItems
    /\ pc = "done"
    /\ result.kind = "Ok"
    /\ Len(result.stmt.column_list) = 2
    /\ result.stmt.column_list[1].constraints = <<CPrimaryKey, CNotNull>>
    /\ Len(result.stmt.column_list[2].constraints) = 1

TableNameExpected ==
    {"Expected table name after FROM", "Expected table name after FROM, got: "}

\* C8: when the SELECT column list has ended at FROM and the token after FROM is
\* no Identifier (EOF included) or there is no token, parse returns a failure
\* saying that a table name was expected after FROM, and no Statement.
C8_MissingTableName ==
    [][(pc = "select_from" /\ Get(tokens, iter).t # "Identifier") =>
          /\ pc' = "done"
          /\ result'.kind = "Err"
          /\ result'.msg[1] \in TableNameExpected]_vars

C8_Witness ==
    /\ IsText(T_NoTable)
    /\ pc = "done"
    /\ result = ErrTok(<<"Expected table name after FROM, got: ">>, EOF)

\* C9: parse returns a Statement or a failure message for every token slice,
\* with or without a final EOF: it never panics.
C9_ParseIsTotal == pc = "done" => result.kind \in {"Ok", "Err"}

\* C10: when the statement parser hands the suffix of the tokens at index s to
\* parse_expression and gets consumed = c back, the next token it examines is
\* the one at index s + c: after WHERE the cursor is at s + c and a following
\* ORDER BY clause is still recognised; after a CHECK predicate the token
\* required to be ')' is the one at s + c.
C10_CursorSync ==
    [][/\ (pc = "select_where" /\ Get(tokens, iter) = Keyword(sWHERE)
              /\ pc' = "select_order") =>
            /\ start_index' = iter + 1
            /\ consumed' = parse_expression(From(tokens, iter + 1), 0).consumed
            /\ iter' = start_index' + consumed'
       /\ (source.fam = "select" /\ source.where # NoPredicate /\ pc' = "done") =>
            /\ result'.kind = "Ok"
            /\ result'.stmt.where = SomeWhere(source.where.tree)
            /\ source.keys # <<>> => result'.stmt.orderby # <<>>
       /\ (pc = "column_constraints" /\ Get(tokens, iter).t = "Check"
              /\ Get(tokens, iter + 1).t = "LParen"
              /\ parse_expression(From(tokens, iter + 2), 0).ok) =>
            LET c == parse_expression(From(tokens, iter + 2), 0).consumed IN
            /\ start_index' = iter + 2
            /\ consumed' = c
            /\ IF Get(tokens, iter + 2 + c).t = "RParen"
               THEN pc' = "column_constraints" /\ iter' = iter + 2 + c + 1
               ELSE pc' = "done" /\ result'.kind = "Err"
      ]_vars

C10_Witness ==
    /\ source.fam = "select" /\ source.where # NoPredicate /\ source.keys # <<>>
    /\ pc = "select_order_key"
    /\ sel.where = SomeWhere(source.where.tree)
    /\ iter = start_index + consumed + 2

\* tokenize has returned
TokenizeDone == pc # "tokenize"

\* C11: an identifier-like run that upper-cases to VARCHAR and is followed by a
\* parenthesized content that is no unsigned integer ("varchar(abc)",
\* "varchar()") gives exactly one Identifier token holding the run as written,
\* and no token for the '(', for the content or for the ')'.
C11_MalformedVarchar ==
    (TokenizeDone /\ (IsText(T_VarcharBad) \/ IsText(T_VarcharEmpty))) =>
        tokens = <<Identifier(<<"v", "a", "r", "c", "h", "a", "r">>), EOF>>

\* C12: when a '(' of the SELECT column list has its matching ')', the one
\* column pushed for it is the parse of all the tokens strictly between the two:
\* parse returns no Statement in which a token of the span was left unconsumed
\* by the expression parser and discarded.
C12_ParenColumnWholeSpan ==
    (source.fam = "paren" /\ pc = "done" /\ result.kind = "Ok") =>
        LET r == parse_expression(source.span, 0) IN
        /\ r.ok
        /\ r.consumed = Len(source.span)
        /\ result.stmt.columns = <<r.expr>>

====
